---- MODULE Spec2Model ----
(***************************************************************************)
(* A model of envisage's ExtensionRegistry (src/envisage/                  *)
(* extension_registry.py): the extension point table, the contribution    *)
(* table, the weakly held listeners and the synchronous dispatch of        *)
(* ExtensionPointChangedEvent to them.                                     *)
(*                                                                         *)
(* Lists are sequences.  The dict _extensions is a function whose DOMAIN   *)
(* is the set of keys present; _extension_points, whose iteration order   *)
(* get_extension_points shows, is the sequence of its values in insertion *)
(* order; _listeners maps every key to its list, the empty list when the  *)
(* key is absent (the code reads it only through setdefault(key, []) and  *)
(* get(key, []), which do not tell the two apart).  A plain listener      *)
(* records that it was called, and with which event; the listener f also  *)
(* reads the registry back from inside the call.                          *)
(*                                                                         *)
(* The second half models the ExtensionPoint trait type of src/envisage/  *)
(* extension_point.py for one owner object obj with one trait x bound to  *)
(* the extension point BoundId: the cached _ExtensionPointValue in        *)
(* obj.__dict__, the views ever created (a view is known by its position  *)
(* in views, its backing list is the entry), the listener closures that   *)
(* connect registers, and the trait_property_changed calls made on obj.   *)
(* Spec drives the registry alone; SpecDispatch drives the mutations of   *)
(* BoundId and the life of its listeners; SpecBinding drives the binding  *)
(* and the registry operations on BoundId; SpecView adds the reads and    *)
(* the mutators of the cached value; SpecSplice has a registry report      *)
(* partial changes to the binding; SpecOwner follows the life of obj;      *)
(* SpecTables drives the two tables of the registry with descriptors that *)
(* replace one another and callers that keep the lists they passed;        *)
(* SpecObservable gives an ObservableExtensionRegistry the calls the       *)
(* ExtensionRegistry is given; SpecListeners adds and removes listeners    *)
(* any number of times; SpecReentrant has listeners that call the registry *)
(* back; SpecConnected connects obj.x before the registry changes;         *)
(* SpecTrusted follows the _internal_use flag of the views.                *)
(***************************************************************************)
EXTENDS Naturals, Sequences, FiniteSets

\* ------------------------------------------------------------------ bounds

\* Longest list of extensions a caller passes to set_extensions.
MaxLen == 2

\* Most weak references the listener table holds at a time.
MaxRegs == 3

\* Most _ExtensionPointValue objects created for the binding.
MaxViews == 2

\* ------------------------------------------------------------------ values

\* Extension point ids, e.g. "my.ep" and "my.ep2" in the tests.
Ids == {"a", "b"}

\* The key under which wildcard listeners are stored (extension_point_id=None).
None == "None"

Keys == Ids \cup {None}

\* The ids listeners are registered for; the other ids have none.
ListenedKeys == {"a", None}

\* The lists callers contribute: [], [1], [1, 2], ... (the items are opaque).
ExtLists == {[i \in 1..n |-> i] : n \in 0..MaxLen}

\* Listener callables: identities of plain functions or bound methods.
Callbacks == {"f", "g"}

\* The listeners that call get_extensions and get_extension_points from
\* inside the call, as the listeners of the tests may.
Readers == {"f"}

\* Listeners that call the registry back from inside the call: h adds the
\* listener Target for the id of the event, r removes it.
Adders == {"h"}

Removers == {"r"}

Target == "g"

\* The listener closures ExtensionPoint.connect creates, one per call.
Closures == {"l1", "l2"}

\* The id of the ExtensionPoint trait x of obj.
BoundId == "a"

\* The one owner object and its one extension point trait.
Obj == "obj"

TraitName == "x"

\* traits.api.Undefined, and a cached value {v} that is the view v.
Undefined == <<>>

\* ExtensionPoint objects: an id and the identity of the object.
EpObjs == {"ep"}

ExtensionPoints == [id : Ids, obj : EpObjs]

\* Two ExtensionPoint objects for every id, to tell a descriptor from the
\* one that replaces it.
Descriptors == [id : Ids, obj : {"ep", "ep2"}]

\* An absent index (index=None) and a concrete one.
NoIndex == <<>>

AtIndex(i) == <<i>>

\* The index slice(lo, hi), for 0 <= lo <= hi.
Slice(lo, hi) == <<lo, hi>>

\* The index slice(lo, hi, step), for a step greater than 1.
ExtendedSlice(lo, hi, step) == <<lo, hi, step>>

IsSlice(index) == Len(index) >= 2

IsExtendedSlice(index) == Len(index) = 3

\* The exceptions the registry raises.
NoError == "none"

UnknownExtensionPoint == "UnknownExtensionPoint"

ValueError == "ValueError"

KeyError == "KeyError"

IndexError == "IndexError"

VARIABLES
    _extension_points,  \* ExtensionRegistry._extension_points, in insertion order
    _extensions,        \* ExtensionRegistry._extensions
    _listeners,         \* ExtensionRegistry._listeners: key -> list of weak refs
    alive,              \* the callables that have not been garbage collected
    last,               \* the last call made and its outcome (history)
    cache,              \* obj.__dict__["__envisage_x"]: <<v>>, or <<>> when absent
    views,              \* the backing list of every _ExtensionPointValue created
    _obj_to_listeners_map,  \* ExtensionPoint._obj_to_listeners_map
    trait_changes,      \* the trait_property_changed calls of the last call
    owner,              \* obj: held by the application, released, or collected
    caller_lists,       \* the ids whose stored list object a caller still holds
    _id_to_contrib,     \* ObservableExtensionRegistry._id_to_contrib
    _observers,         \* the handlers ObservableExtensionRegistry.observe holds
    _internal_use       \* the views whose _internal_use flag is True

vars == <<_extension_points, _extensions, _listeners, alive, last,
          cache, views, _obj_to_listeners_map, trait_changes,
          owner, caller_lists, _id_to_contrib, _observers, _internal_use>>

binding == <<cache, views, _obj_to_listeners_map>>

\* The second registry, an ObservableExtensionRegistry.
observable == <<_id_to_contrib, _observers>>

\* What is set apart from the tables of the ExtensionRegistry: obj itself,
\* the second registry, and the flags of the views, which only a splice made
\* by the binding touches.
apart == <<owner, observable, _internal_use>>

registry == <<_extension_points, _extensions, _listeners>>

\* ------------------------------------------------------------ dict helpers

EmptyDict == [k \in {} |-> <<>>]

\* d[k] = v
DictSet(d, k, v) == [x \in DOMAIN d \cup {k} |-> IF x = k THEN v ELSE d[x]]

\* del d[k]
DictDel(d, k) == [x \in DOMAIN d \ {k} |-> d[x]]

\* the dict after d.setdefault(k, default)
DictSetDefault(d, k, default) == IF k \in DOMAIN d THEN d ELSE DictSet(d, k, default)

\* list.remove(x) for an x at position i
RemoveAt(s, i) == SubSeq(s, 1, i - 1) \o SubSeq(s, i + 1, Len(s))

\* --------------------------------------------------------- weak references

\* _saferef(listener): the weak reference stored for a listener.  The code
\* compares references by their referents only (WeakRefEq); key records the
\* extension_point_id the reference was registered for (history, never read
\* by the registry).
_saferef(listener, key) == [cb |-> listener, key |-> key]

\* Mutant: the reference is a strong one.
Deref_strong(ref) == ref.cb

\* ref(): the listener when it is still alive, None once it was collected.
Deref(ref) == IF ref.cb \in alive THEN ref.cb ELSE None

\* ref == _saferef(listener), for a listener the caller holds (and which is
\* therefore alive): weak references are equal when their referents are.
WeakRefEq(ref, listener) == Deref(ref) = listener

\* ------------------------------------------------------ the changed event

ExtensionPointChangedEvent(extension_point_id, added, removed, index) ==
    [extension_point_id |-> extension_point_id,
     added |-> added, removed |-> removed, index |-> index]

\* ------------------------------------------------------------ history

NoArg == "-"

\* The record of one call: the operation, its arguments, the exception it
\* raised, the value it returned and the listener invocations it made, in order.
Call(op, id, listener, ep, extensions, raised, result, calls) ==
    [op |-> op, id |-> id, listener |-> listener, ep |-> ep,
     extensions |-> extensions, raised |-> raised, result |-> result,
     calls |-> calls]

\* ---------------------------------------- protected ExtensionRegistry interface

\* Mutant: the check never raises.
_check_extension_point_never(extension_points, extension_point_id) == TRUE

\* _check_extension_point: TRUE when it returns, FALSE when it raises
\* UnknownExtensionPoint.
_check_extension_point(extension_points, extension_point_id) ==
    \E i \in 1..Len(extension_points) : extension_points[i].id = extension_point_id

\* Mutant: the list is reset on every read.
_get_extensions_reset(extensions, extension_point_id) == <<>>

\* _get_extensions: the list returned, and the dict after the setdefault.
_get_extensions(extensions, extension_point_id) ==
    DictSetDefault(extensions, extension_point_id, <<>>)[extension_point_id]

\* Mutant: the entry is reset on every read.
_get_extensions_dict_clear(extensions, extension_point_id) ==
    DictSet(extensions, extension_point_id, <<>>)

_get_extensions_dict(extensions, extension_point_id) ==
    DictSetDefault(extensions, extension_point_id, <<>>)

\* Mutant: the references of every key are collected.
_get_listener_refs_all(listeners, extension_point_id) ==
    listeners["a"] \o listeners["b"] \o listeners[None]

\* Mutant: the wildcards come first.
_get_listener_refs_wild(listeners, extension_point_id) ==
    listeners[None] \o listeners[extension_point_id]

\* _get_listener_refs: the references for this id first, then the wildcards.
_get_listener_refs(listeners, extension_point_id) ==
    listeners[extension_point_id] \o listeners[None]

\* Mutant: the loop ends at the first dead reference.
_call_listeners_stop(refs, extension_point_id, added, removed, index) ==
    LET event == ExtensionPointChangedEvent(extension_point_id, added, removed, index)
        dead  == {i \in 1..Len(refs) : refs[i].cb \notin alive}
        live  == IF dead = {} THEN refs
                 ELSE SubSeq(refs, 1, (CHOOSE i \in dead : \A j \in dead : i <= j) - 1)
    IN  [i \in 1..Len(live) |-> [listener |-> live[i].cb, key |-> live[i].key,
                                 event |-> event]]

\* Mutant: nothing is dispatched when nothing changed.
_call_listeners_dedup(refs, extension_point_id, added, removed, index) ==
    LET event == ExtensionPointChangedEvent(extension_point_id, added, removed, index)
        live  == SelectSeq(refs, LAMBDA ref : Deref(ref) # None)
    IN  IF added = removed THEN <<>>
        ELSE [i \in 1..Len(live) |-> [listener |-> Deref(live[i]),
                                      key |-> live[i].key, event |-> event]]

\* _call_listeners: the invocations made, in order; a dead reference is skipped.
_call_listeners(refs, extension_point_id, added, removed, index) ==
    LET event == ExtensionPointChangedEvent(extension_point_id, added, removed, index)
        live  == SelectSeq(refs, LAMBDA ref : Deref(ref) # None)
    IN  [i \in 1..Len(live) |-> [listener |-> Deref(live[i]), key |-> live[i].key,
                                 event |-> event]]

\* ------------------------------------------------ IExtensionRegistry interface

\* Number of weak references the table holds.
NumRefs(listeners) ==
    LET RECURSIVE Sum(_)
        Sum(K) == IF K = {} THEN 0
                  ELSE LET k == CHOOSE x \in K : TRUE
                       IN  Len(listeners[k]) + Sum(K \ {k})
    IN  Sum(Keys)

\* Mutant: a listener already in the list is not appended again.
AppendListener_set(listeners, listener, extension_point_id) ==
    IF \E i \in 1..Len(listeners[extension_point_id]) :
           listeners[extension_point_id][i].cb = listener
    THEN listeners
    ELSE [listeners EXCEPT ![extension_point_id] =
             Append(@, _saferef(listener, extension_point_id))]

\* listeners.append(_saferef(listener)) on the list of extension_point_id.
AppendListener(listeners, listener, extension_point_id) ==
    [listeners EXCEPT ![extension_point_id] =
        Append(@, _saferef(listener, extension_point_id))]

add_extension_point_listener(listener, extension_point_id) ==
    /\ listener \in alive
    /\ NumRefs(_listeners) < MaxRegs
    /\ _listeners' = AppendListener(_listeners, listener, extension_point_id)
    /\ last' = Call("add_extension_point_listener", extension_point_id, listener,
                    NoArg, <<>>, NoError, <<>>, <<>>)
    /\ UNCHANGED <<_extension_points, _extensions, alive>>
    /\ trait_changes' = <<>>
    /\ UNCHANGED <<binding, apart, caller_lists>>

\* Mutant: the descriptor is appended, whatever the table holds.
SetExtensionPoint_append(extension_points, extension_point) ==
    Append(extension_points, extension_point)

\* self._extension_points[extension_point.id] = extension_point: an id already
\* present keeps its place and takes the new object.
SetExtensionPoint(extension_points, extension_point) ==
    IF \E i \in 1..Len(extension_points) : extension_points[i].id = extension_point.id
    THEN [i \in 1..Len(extension_points) |->
            IF extension_points[i].id = extension_point.id
            THEN extension_point ELSE extension_points[i]]
    ELSE Append(extension_points, extension_point)

\* The record of an add_extension_point call; readd tells whether the call
\* just before it was a successful remove_extension_point of the same id
\* (history).
AddCall(extension_point, before) ==
    [op |-> "add_extension_point", id |-> extension_point.id, listener |-> NoArg,
     ep |-> extension_point.obj, extensions |-> <<>>, raised |-> NoError,
     result |-> <<>>, calls |-> <<>>,
     readd |-> /\ before.op = "remove_extension_point"
               /\ before.raised = NoError
               /\ before.id = extension_point.id]

add_extension_point(extension_point) ==
    /\ _extension_points' = SetExtensionPoint(_extension_points, extension_point)
    /\ last' = AddCall(extension_point, last)
    /\ UNCHANGED <<_extensions, _listeners, alive>>
    /\ trait_changes' = <<>>
    /\ UNCHANGED <<binding, apart, caller_lists>>

\* list[:], a new list with the same items.
Copy(list) == [i \in 1..Len(list) |-> list[i]]

\* The list get_extensions returns.
get_extensions_result(extensions, extension_point_id) ==
    Copy(_get_extensions(extensions, extension_point_id))

get_extensions(extension_point_id) ==
    /\ _extensions' = _get_extensions_dict(_extensions, extension_point_id)
    /\ last' = Call("get_extensions", extension_point_id, NoArg, NoArg, <<>>, NoError,
                    get_extensions_result(_extensions, extension_point_id), <<>>)
    /\ UNCHANGED <<_extension_points, _listeners, alive>>
    /\ trait_changes' = <<>>
    /\ UNCHANGED <<binding, apart, caller_lists>>

\* self._extension_points.get(extension_point_id): <<the object>>, or <<>> for None.
GetExtensionPoint(extension_points, extension_point_id) ==
    SelectSeq(extension_points, LAMBDA ep : ep.id = extension_point_id)

get_extension_point(extension_point_id) ==
    /\ last' = Call("get_extension_point", extension_point_id, NoArg, NoArg, <<>>,
                    NoError, GetExtensionPoint(_extension_points, extension_point_id),
                    <<>>)
    /\ UNCHANGED <<_extension_points, _extensions, _listeners, alive>>
    /\ trait_changes' = <<>>
    /\ UNCHANGED <<binding, apart, caller_lists>>

get_extension_points ==
    /\ last' = Call("get_extension_points", NoArg, NoArg, NoArg, <<>>, NoError,
                    _extension_points, <<>>)
    /\ UNCHANGED <<_extension_points, _extensions, _listeners, alive>>
    /\ trait_changes' = <<>>
    /\ UNCHANGED <<binding, apart, caller_lists>>

\* Mutant: the first reference is taken, whatever it refers to.
IndexOfListener_first(refs, listener) == IF refs # <<>> THEN 1 ELSE 0

\* The position list.remove finds for _saferef(listener): the first reference
\* equal to it, 0 when there is none (list.remove then raises ValueError).
IndexOfListener(refs, listener) ==
    IF \E i \in 1..Len(refs) : WeakRefEq(refs[i], listener)
    THEN CHOOSE i \in 1..Len(refs) :
            /\ WeakRefEq(refs[i], listener)
            /\ \A j \in 1..(i - 1) : ~WeakRefEq(refs[j], listener)
    ELSE 0

\* listeners.remove(_saferef(listener)) on the list of extension_point_id,
\* when the reference is found at position i.
RemoveListener(listeners, extension_point_id, i) ==
    [listeners EXCEPT ![extension_point_id] = RemoveAt(@, i)]

remove_extension_point_listener(listener, extension_point_id) ==
    LET i == IndexOfListener(_listeners[extension_point_id], listener)
    IN  /\ listener \in alive
        /\ IF i = 0
           THEN /\ _listeners' = _listeners
                /\ last' = Call("remove_extension_point_listener", extension_point_id,
                                listener, NoArg, <<>>, ValueError, <<>>, <<>>)
           ELSE /\ _listeners' = RemoveListener(_listeners, extension_point_id, i)
                /\ last' = Call("remove_extension_point_listener", extension_point_id,
                                listener, NoArg, <<>>, NoError, <<>>, <<>>)
        /\ UNCHANGED <<_extension_points, _extensions, alive>>
        /\ trait_changes' = <<>>
        /\ UNCHANGED <<binding, apart, caller_lists>>

\* --------------------------------- ExtensionPoint: the cache and the listener

\* What a listener runs on and may change: the contribution table (read
\* through get_extensions, which inserts a missing key), the cache slot of
\* obj, the views, and the trait_property_changed calls made so far.
Running(extensions, c, vs, changes) ==
    [extensions |-> extensions, cache |-> c, views |-> vs, changes |-> changes]

\* Mutant: the old value is not passed on.
TraitChange_noold(name, old, new) == [name |-> name, old |-> Undefined, new |-> new]

\* One obj.trait_property_changed(name, old, new) call.
TraitChange(name, old, new) == [name |-> name, old |-> old, new |-> new]

\* _ExtensionPointValue(iterable): the backing list of the new TraitList.
_ExtensionPointValue(iterable) == Copy(iterable)

\* The module function _get_extensions(object, name) of extension_point.py:
\* extension_registry.get_extensions(extension_point.id).
TraitExtensions(extensions) == get_extensions_result(extensions, BoundId)

\* Mutant: the cache is rebuilt on every get.
CacheMiss_always(c) == TRUE

\* cache_name not in obj.__dict__
CacheMiss(c) == c = Undefined

\* Mutant: the new view is a copy of the one it replaces.
_update_cache_stale(s) ==
    LET new == Len(s.views) + 1
    IN  [extensions |-> _get_extensions_dict(s.extensions, BoundId),
         cache      |-> <<new>>,
         views      |-> Append(s.views,
                               IF s.cache = Undefined
                               THEN TraitExtensions(s.extensions)
                               ELSE s.views[s.cache[1]]),
         changes    |-> Append(s.changes, TraitChange(TraitName, s.cache, <<new>>))]

\* _update_cache(obj, trait_name): a new view of the registry's value takes
\* the cache slot and obj is told.
_update_cache(s) ==
    LET new == Len(s.views) + 1
    IN  [extensions |-> _get_extensions_dict(s.extensions, BoundId),
         cache      |-> <<new>>,
         views      |-> Append(s.views,
                               _ExtensionPointValue(TraitExtensions(s.extensions))),
         changes    |-> Append(s.changes, TraitChange(TraitName, s.cache, <<new>>))]

\* ExtensionPoint.get(obj, trait_name), as a step of a running call: the
\* state it leaves; the value it returns is the cache slot of that state.
\* value[:] is read through the registry.
GetValue(s) ==
    LET filled == IF CacheMiss(s.cache) THEN _update_cache(s) ELSE s
    IN  [filled EXCEPT !.extensions = _get_extensions_dict(@, BoundId)]

\* Mutant: the splice inserts and takes nothing away.
SliceAssign_insert(list, lo, hi, new) ==
    LET l == IF lo > Len(list) THEN Len(list) ELSE lo
    IN  SubSeq(list, 1, l) \o new \o SubSeq(list, l + 1, Len(list))

\* list[lo:hi] = new for 0 <= lo <= hi, the bounds clamped to the list as
\* Python clamps them.
SliceAssign(list, lo, hi, new) ==
    LET l == IF lo > Len(list) THEN Len(list) ELSE lo
        h == IF hi > Len(list) THEN Len(list) ELSE hi
    IN  SubSeq(list, 1, l) \o new \o SubSeq(list, h + 1, Len(list))

\* The offsets list[lo:hi:step] selects.
Selected(list, index) ==
    {k \in 0..(Len(list) - 1) :
        /\ index[1] <= k
        /\ k < index[2]
        /\ (k - index[1]) % index[3] = 0}

\* list[lo:hi:step] = new, for as many new items as offsets selected.
ExtendedAssign(list, index, new) ==
    [k \in 1..Len(list) |->
        IF k - 1 \in Selected(list, index)
        THEN new[Cardinality({j \in Selected(list, index) : j <= k - 1})]
        ELSE list[k]]

\* del list[lo:hi:step]
ExtendedDelete(list, index) ==
    LET RECURSIVE Kept(_)
        Kept(k) == IF k > Len(list) THEN <<>>
                   ELSE IF k - 1 \in Selected(list, index) THEN Kept(k + 1)
                   ELSE <<list[k]>> \o Kept(k + 1)
    IN  Kept(1)

\* The exception the splice of an event raises on the backing list: an
\* extended slice takes as many items as it selects, and the assignment
\* raises ValueError for any other number of them.
SpliceRaises(list, event) ==
    IF /\ IsExtendedSlice(event.index)
       /\ event.added # <<>>
       /\ Len(event.added) # Cardinality(Selected(list, event.index))
    THEN ValueError ELSE NoError

\* Mutant: the flag is not reset when the body raises (no try/finally).
_internal_sync_nofinally(flags, v, raised) ==
    IF raised = NoError THEN flags \ {v} ELSE flags \cup {v}

\* with view._internal_sync(): the flag of the view is set, the body runs,
\* and the finally clause clears the flag, whether the body raised or not.
\* The flags left.
_internal_sync(flags, v, raised) == flags \ {v}

\* The closure listener(extension_registry, event) that connect registers.
\* An event with an index splices the cached view (getattr(obj, "x")) in
\* place, under _internal_sync, and fires x_items: a slice index is assigned
\* event.added, or deleted when event.added is empty; an integer index i
\* stands for slice(i, i + len(event.removed)).  A splice that raises ends
\* the listener there.  An event without an index rebuilds the cache.
connect_listener(s, event) ==
    IF event.index # NoIndex
    THEN LET got == GetValue(s)
             v   == got.cache[1]
             i   == event.index[1]
         IN  IF SpliceRaises(got.views[v], event) # NoError THEN got
             ELSE [got EXCEPT
                 !.views[v] =
                     IF IsExtendedSlice(event.index)
                     THEN IF event.added # <<>>
                          THEN ExtendedAssign(@, event.index, event.added)
                          ELSE ExtendedDelete(@, event.index)
                     ELSE IF IsSlice(event.index)
                     THEN IF event.added # <<>>
                          THEN SliceAssign(@, i, event.index[2], event.added)
                          ELSE SliceAssign(@, i, event.index[2], <<>>)
                     ELSE SliceAssign(@, i, i + Len(event.removed), event.added),
                 !.changes = Append(@, TraitChange("x_items", Undefined, event))]
    ELSE _update_cache(s)

\* What listener(extension_registry, event) raises when run on a state.
ListenerRaises(s, event) ==
    IF event.index # NoIndex
    THEN LET got == GetValue(s)
         IN  SpliceRaises(got.views[got.cache[1]], event)
    ELSE NoError

\* The flags of the views after listener(extension_registry, event) has run
\* on a state.
FlagsAfter(flags, s, event) ==
    IF event.index # NoIndex
    THEN _internal_sync(flags, GetValue(s).cache[1], ListenerRaises(s, event))
    ELSE flags

\* What a reading listener gets from get_extensions(event.extension_point_id)
\* and get_extension_points() inside the call.
Seen(extension_points, extensions, extension_point_id) ==
    [extensions       |-> get_extensions_result(extensions, extension_point_id),
     extension_points |-> extension_points]

\* One listener invocation, and what the listener read back (<<>> if nothing).
Invocation(call, seen) ==
    [listener |-> call.listener, key |-> call.key, event |-> call.event,
     seen |-> seen]

\* Mutant: a listener that was removed from the table leaves the list.
Snapshot_live(calls, table) ==
    SelectSeq(calls, LAMBDA c :
        \E i \in 1..Len(table[c.key]) : table[c.key][i].cb = c.listener)

\* The list the for loop of _call_listeners goes through: refs, a list that
\* _get_listener_refs built before the first listener ran, whatever the
\* listener table has become since.
Snapshot(calls, table) == calls

\* Mutant: the loop catches what a listener raises and goes on.
Uncaught_swallowed(error) == NoError

\* What leaves _call_listeners when listener(self, event) raises: the call is
\* made outside any try statement, here and in set_extensions and
\* remove_extension_point.
Uncaught(error) == error

\* The for loop of _call_listeners run on a state: the invocations made, the
\* state and the listener table the listeners leave, and the exception that
\* ended the loop, if one did.  A listener that adds a listener appends to
\* the table; one that removes a listener takes a reference out of it, or
\* raises the ValueError of remove_extension_point_listener, which nothing
\* between the listener and the caller of the registry catches.
RunListeners(calls, extension_points, s) ==
    LET RECURSIVE Run(_, _, _, _)
        Run(i, st, table, done) ==
            IF i > Len(Snapshot(calls, table))
            THEN [state |-> st, calls |-> done, listeners |-> table,
                  raised |-> NoError]
            ELSE LET c  == Snapshot(calls, table)[i]
                     id == c.event.extension_point_id
                 IN  IF c.listener \in Closures
                     THEN Run(i + 1, connect_listener(st, c.event), table,
                              Append(done, Invocation(c, <<>>)))
                     ELSE IF c.listener \in Readers
                     THEN Run(i + 1,
                              [st EXCEPT !.extensions = _get_extensions_dict(@, id)],
                              table,
                              Append(done, Invocation(c,
                                  <<Seen(extension_points, st.extensions, id)>>)))
                     ELSE IF c.listener \in Adders
                     THEN Run(i + 1, st, AppendListener(table, Target, id),
                              Append(done, Invocation(c, <<>>)))
                     ELSE IF c.listener \in Removers
                     THEN LET at == IndexOfListener(table[id], Target)
                          IN  IF at = 0 /\ Uncaught(ValueError) # NoError
                              THEN [state |-> st,
                                    calls |-> Append(done, Invocation(c, <<>>)),
                                    listeners |-> table,
                                    raised |-> Uncaught(ValueError)]
                              ELSE IF at = 0
                              THEN Run(i + 1, st, table,
                                       Append(done, Invocation(c, <<>>)))
                              ELSE Run(i + 1, st, RemoveListener(table, id, at),
                                       Append(done, Invocation(c, <<>>)))
                     ELSE Run(i + 1, st, table, Append(done, Invocation(c, <<>>)))
    IN  Run(1, s, _listeners, <<>>)

\* Mutant: the listeners are called before the change is made.
VisibleToListeners_before(before, after) == before

\* The table the listeners run on: set_extensions and remove_extension_point
\* change the registry first and dispatch afterwards.
VisibleToListeners(before, after) == after

\* ------------------------------------------------ IExtensionRegistry, continued

\* del self._extension_points[extension_point_id]
DelExtensionPoint(extension_points, extension_point_id) ==
    SelectSeq(extension_points, LAMBDA ep : ep.id # extension_point_id)

\* Mutant: old is read after the entry was deleted.
RemovedExtensions_after(extensions, extension_point_id) == <<>>

\* The extensions remove_extension_point takes away: old, and the dict left.
RemovedExtensions(extensions, extension_point_id) ==
    IF extension_point_id \in DOMAIN extensions
    THEN extensions[extension_point_id] ELSE <<>>

\* Mutant: the contributions are left in place.
DelExtensions_keep(extensions, extension_point_id) == extensions

DelExtensions(extensions, extension_point_id) ==
    IF extension_point_id \in DOMAIN extensions
    THEN DictDel(extensions, extension_point_id) ELSE extensions

\* The index remove_extension_point passes to _call_listeners.
RemovedIndex == AtIndex(0)

remove_extension_point(extension_point_id) ==
    IF ~_check_extension_point(_extension_points, extension_point_id)
    THEN /\ last' = Call("remove_extension_point", extension_point_id, NoArg, NoArg,
                         <<>>, UnknownExtensionPoint, <<>>, <<>>)
         /\ UNCHANGED <<_extension_points, _extensions, _listeners, alive>>
         /\ trait_changes' = <<>>
         /\ UNCHANGED <<binding, apart, caller_lists>>
    ELSE LET old  == RemovedExtensions(_extensions, extension_point_id)
             refs == _get_listener_refs(_listeners, extension_point_id)
             left == DelExtensionPoint(_extension_points, extension_point_id)
         IN  \E run \in {RunListeners(
                        _call_listeners(refs, extension_point_id, <<>>, old,
                                        RemovedIndex),
                        VisibleToListeners(_extension_points, left),
                        Running(VisibleToListeners(_extensions,
                                    DelExtensions(_extensions, extension_point_id)),
                                cache, views, <<>>))} :
             /\ Len(run.state.views) <= MaxViews
             /\ NumRefs(run.listeners) <= MaxRegs
             /\ _extension_points' = left
             /\ _extensions' = run.state.extensions
             /\ _listeners' = run.listeners
             /\ last' = Call("remove_extension_point", extension_point_id, NoArg, NoArg,
                             <<>>, run.raised, <<>>, run.calls)
             /\ cache' = run.state.cache
             /\ views' = run.state.views
             /\ trait_changes' = run.state.changes
             /\ caller_lists' = caller_lists \ {extension_point_id}
             /\ _internal_use' =
                    IF \E i \in 1..Len(run.calls) : run.calls[i].listener \in Closures
                    THEN _internal_sync(_internal_use, run.state.cache[1], NoError)
                    ELSE _internal_use
             /\ UNCHANGED <<alive, _obj_to_listeners_map, owner, observable>>

\* Mutant: the first contribution wins (setdefault instead of assignment).
StoreExtensions_once(extensions_dict, extension_point_id, extensions) ==
    IF extensions_dict[extension_point_id] # <<>>
    THEN extensions_dict
    ELSE DictSet(extensions_dict, extension_point_id, extensions)

\* self._extensions[extension_point_id] = extensions
StoreExtensions(extensions_dict, extension_point_id, extensions) ==
    DictSet(extensions_dict, extension_point_id, extensions)

\* The index set_extensions passes to _call_listeners.
SetIndex == NoIndex

\* Mutant: the registry stores a copy of the list it is given.
StoredList_copy(lists, extension_point_id) == lists \ {extension_point_id}

\* self._extensions[extension_point_id] = extensions stores the very list
\* object the caller passed: the caller holds the list now stored for the id.
StoredList(lists, extension_point_id) == lists \cup {extension_point_id}

set_extensions(extension_point_id, extensions) ==
    IF ~_check_extension_point(_extension_points, extension_point_id)
    THEN /\ last' = Call("set_extensions", extension_point_id, NoArg, NoArg,
                         extensions, UnknownExtensionPoint, <<>>, <<>>)
         /\ UNCHANGED <<_extension_points, _extensions, _listeners, alive>>
         /\ trait_changes' = <<>>
         /\ UNCHANGED <<binding, apart, caller_lists>>
    ELSE LET old  == _get_extensions(_extensions, extension_point_id)
             refs == _get_listener_refs(_listeners, extension_point_id)
             got  == _get_extensions_dict(_extensions, extension_point_id)
         IN  \E run \in {RunListeners(
                        _call_listeners(refs, extension_point_id, extensions, old,
                                        SetIndex),
                        _extension_points,
                        Running(VisibleToListeners(got,
                                    StoreExtensions(got, extension_point_id,
                                                    extensions)),
                                cache, views, <<>>))} :
             /\ Len(run.state.views) <= MaxViews
             /\ NumRefs(run.listeners) <= MaxRegs
             /\ _extensions' = run.state.extensions
             /\ _listeners' = run.listeners
             /\ last' = Call("set_extensions", extension_point_id, NoArg, NoArg,
                             extensions, run.raised, <<>>, run.calls)
             /\ cache' = run.state.cache
             /\ views' = run.state.views
             /\ trait_changes' = run.state.changes
             /\ caller_lists' = StoredList(caller_lists, extension_point_id)
             /\ UNCHANGED <<_extension_points, alive, _obj_to_listeners_map, apart>>

\* The caller of set_extensions(extension_point_id, extensions) changes, in
\* place, the list object it passed (extensions[:] = new): the registry's
\* value changes with it while that object is the one stored for the id.  No
\* method of the registry runs.
mutate_original(extension_point_id, new) ==
    /\ \/ extension_point_id \in caller_lists
       \/ /\ last.op = "set_extensions"
          /\ last.raised = NoError
          /\ last.id = extension_point_id
    /\ _extensions' = IF extension_point_id \in caller_lists
                      THEN DictSet(_extensions, extension_point_id, new)
                      ELSE _extensions
    /\ last' = Call("mutate_original", extension_point_id, NoArg, NoArg, new,
                    NoError, <<>>, <<>>)
    /\ trait_changes' = <<>>
    /\ UNCHANGED <<_extension_points, _listeners, alive, binding, apart,
                   caller_lists>>

\* ------------------------------------------------ ExtensionPoint trait type

\* The record of one call on the binding or on the view v (history).
ViewCall(op, v, arg, raised, result) ==
    [op |-> op, id |-> BoundId, listener |-> NoArg, ep |-> NoArg,
     extensions |-> arg, raised |-> raised, result |-> result, calls |-> <<>>,
     view |-> v]

\* Mutant: get registers a listener for the binding.
ListenersAfterGet_subscribed(listeners) == AppendListener(listeners, "l1", BoundId)

\* The listener table ExtensionPoint.get leaves: get calls get_extensions
\* only, it registers nothing.
ListenersAfterGet(listeners) == listeners

\* ExtensionPoint.get(obj, "x"), i.e. getattr(obj, "x"): returns the cached view.
get ==
    \E got \in {GetValue(Running(_extensions, cache, views, <<>>))} :
        /\ Len(got.views) <= MaxViews
        /\ _extensions' = got.extensions
        /\ cache' = got.cache
        /\ views' = got.views
        /\ trait_changes' = got.changes
        /\ last' = ViewCall("get", got.cache[1], <<>>, NoError, got.cache)
        /\ _listeners' = ListenersAfterGet(_listeners)
        /\ UNCHANGED <<_extension_points, alive, _obj_to_listeners_map, apart,
                       caller_lists>>

\* The closures no one holds and no weak reference of the table names: the
\* identities a new closure can take.
FreshClosures ==
    {l \in Closures :
        /\ l \notin alive
        /\ \A k \in Keys : \A i \in 1..Len(_listeners[k]) : _listeners[k][i].cb # l}

\* self._obj_to_listeners_map.setdefault(obj, {})[trait_name] = listener
SaveListener(map, l) ==
    DictSet(map, Obj, DictSet(DictSetDefault(map, Obj, EmptyDict)[Obj], TraitName, l))

\* ExtensionPoint.connect(obj, "x"): a new closure is registered for BoundId
\* and saved, in place of the one saved before.
connect ==
    /\ FreshClosures # {}
    /\ NumRefs(_listeners) < MaxRegs
    /\ LET l == CHOOSE c \in FreshClosures : TRUE
       IN  /\ alive' = alive \cup {l}
           /\ _listeners' = AppendListener(_listeners, l, BoundId)
           /\ _obj_to_listeners_map' = SaveListener(_obj_to_listeners_map, l)
           /\ last' = Call("connect", BoundId, l, NoArg, <<>>, NoError, <<>>, <<>>)
    /\ trait_changes' = <<>>
    /\ UNCHANGED <<_extension_points, _extensions, cache, views, apart,
                   caller_lists>>

\* ExtensionPoint.disconnect(obj, "x")
disconnect ==
    /\ IF Obj \notin DOMAIN _obj_to_listeners_map
       THEN /\ last' = Call("disconnect", BoundId, NoArg, NoArg, <<>>, KeyError,
                            <<>>, <<>>)
            /\ UNCHANGED <<_listeners, _obj_to_listeners_map>>
       ELSE IF TraitName \notin DOMAIN _obj_to_listeners_map[Obj]
       THEN /\ last' = Call("disconnect", BoundId, NoArg, NoArg, <<>>, NoError,
                            <<>>, <<>>)
            /\ UNCHANGED <<_listeners, _obj_to_listeners_map>>
       ELSE LET l == _obj_to_listeners_map[Obj][TraitName]
                i == IndexOfListener(_listeners[BoundId], l)
            IN  IF i = 0
                THEN /\ last' = Call("disconnect", BoundId, l, NoArg, <<>>,
                                     ValueError, <<>>, <<>>)
                     /\ UNCHANGED <<_listeners, _obj_to_listeners_map>>
                ELSE /\ _listeners' = RemoveListener(_listeners, BoundId, i)
                     /\ _obj_to_listeners_map' =
                            [_obj_to_listeners_map EXCEPT ![Obj] = DictDel(@, TraitName)]
                     /\ last' = Call("disconnect", BoundId, l, NoArg, <<>>,
                                     NoError, <<>>, <<>>)
    /\ trait_changes' = <<>>
    /\ UNCHANGED <<_extension_points, _extensions, alive, cache, views, apart,
                   caller_lists>>

\* The events an extension registry that reports partial changes may send
\* for BoundId: items added and removed at an integer index or at a slice.
Positions == {0, 1}

IndexedEvents ==
    {ExtensionPointChangedEvent(BoundId, added, removed, AtIndex(i)) :
        added \in ExtLists, removed \in ExtLists, i \in Positions}
    \cup
    {ExtensionPointChangedEvent(BoundId, added, [k \in 1..(sl[2] - sl[1]) |-> k],
                                Slice(sl[1], sl[2])) :
        added \in ExtLists,
        sl \in {p \in Positions \X Positions : p[1] <= p[2]}}

\* The same registry may also send an extended slice.
ExtendedEvents ==
    {ExtensionPointChangedEvent(BoundId, added, <<1>>, ExtendedSlice(0, 1, 2)) :
        added \in ExtLists}

\* The registry of obj calls listener(extension_registry, event) on a closure
\* that connect registered with it.
notify(l, event) ==
    /\ l \in alive
    /\ \E i \in 1..Len(_listeners[BoundId]) : _listeners[BoundId][i].cb = l
    /\ \E s \in {connect_listener(Running(_extensions, cache, views, <<>>), event)} :
           /\ Len(s.views) <= MaxViews
           /\ \A v \in 1..Len(s.views) : Len(s.views[v]) <= MaxLen
           /\ _extensions' = s.extensions
           /\ cache' = s.cache
           /\ views' = s.views
           /\ trait_changes' = s.changes
    /\ _internal_use' =
           FlagsAfter(_internal_use, Running(_extensions, cache, views, <<>>), event)
    /\ last' = Call("notify", BoundId, l, NoArg, <<>>,
                    ListenerRaises(Running(_extensions, cache, views, <<>>), event),
                    <<>>,
                    <<[listener |-> l, key |-> BoundId, event |-> event,
                       seen |-> <<>>]>>)
    /\ UNCHANGED <<_extension_points, _listeners, alive, _obj_to_listeners_map,
                   owner, observable, caller_lists>>

\* ExtensionPoint.disconnect_extension_point_traits(obj): disconnect is called
\* for every extension point trait of obj, and obj has the one trait x.
disconnect_extension_point_traits == disconnect

\* ------------------------------------------------------ _ExtensionPointValue

\* The methods that would change a list.
MutatingOps ==
    {"append", "extend", "insert", "remove", "pop", "clear",
     "__setitem__", "__delitem__", "__iadd__", "__imul__"}

\* Mutant: __setitem__ and __delitem__ lost their guard.
DirectMutation_unguarded(store, internal_use, op, reported) ==
    CASE op = "__setitem__" ->
            IF store = <<>>
            THEN [raised |-> IndexError, store |-> store, result |-> <<>>]
            ELSE [raised |-> NoError, store |-> [store EXCEPT ![1] = 9],
                  result |-> <<>>]
      [] op = "__delitem__" ->
            IF store = <<>>
            THEN [raised |-> IndexError, store |-> store, result |-> <<>>]
            ELSE [raised |-> NoError, store |-> Tail(store), result |-> <<>>]
      [] op \in {"__iadd__", "__imul__"} ->
            [raised |-> NoError, store |-> store, result |-> <<reported>>]
      [] OTHER -> [raised |-> NoError, store |-> store, result |-> <<>>]

\* A mutating method called on a view: view[0] = 9, del view[0], view += ...,
\* view.append(9) and so on.  Outside _internal_sync every one of them warns
\* and returns (+= and *= return a copy, self[:]); inside it, __setitem__ and
\* __delitem__ are TraitList's.  The outcome: the exception raised, the
\* backing list left, the value returned (<<>> for None).
DirectMutation(store, internal_use, op, reported) ==
    CASE op \in {"__setitem__", "__delitem__"} /\ internal_use ->
            IF store = <<>>
            THEN [raised |-> IndexError, store |-> store, result |-> <<>>]
            ELSE [raised |-> NoError,
                  store  |-> IF op = "__setitem__" THEN [store EXCEPT ![1] = 9]
                             ELSE Tail(store),
                  result |-> <<>>]
      [] op \in {"__iadd__", "__imul__"} ->
            [raised |-> NoError, store |-> store, result |-> <<reported>>]
      [] OTHER -> [raised |-> NoError, store |-> store, result |-> <<>>]

\* Mutant: the accessors trust the backing list.
Reported_store(store, internal_use, extensions) == store

\* The list __eq__, __getitem__ and __len__ work on: the backing list inside
\* _internal_sync, the registry's value otherwise.
Reported(store, internal_use, extensions) ==
    IF internal_use THEN store ELSE TraitExtensions(extensions)

\* list[k] for k >= 0: the item, or IndexError.
ListItem(list, k) ==
    IF k < Len(list) THEN [raised |-> NoError, result |-> <<list[k + 1]>>]
    ELSE [raised |-> IndexError, result |-> <<>>]

\* A direct mutation attempted on the view v by code outside the binding.
attempt(v, op) ==
    \E r \in {DirectMutation(views[v], v \in _internal_use, op,
                            Reported(views[v], v \in _internal_use, _extensions))} :
        /\ views' = [views EXCEPT ![v] = r.store]
        /\ _extensions' = IF op \in {"__iadd__", "__imul__"}
                          THEN _get_extensions_dict(_extensions, BoundId)
                          ELSE _extensions
        /\ last' = ViewCall(op, v, <<>>, r.raised, r.result)
        /\ trait_changes' = <<>>
        /\ UNCHANGED <<_extension_points, _listeners, alive, cache,
                       _obj_to_listeners_map, apart, caller_lists>>

\* len(view)
__len__(v) ==
    /\ _extensions' = _get_extensions_dict(_extensions, BoundId)
    /\ last' = ViewCall("__len__", v, <<>>, NoError,
                        <<Len(Reported(views[v], v \in _internal_use, _extensions))>>)
    /\ trait_changes' = <<>>
    /\ UNCHANGED <<_extension_points, _listeners, alive, binding, apart,
                       caller_lists>>

\* view[k]
__getitem__(v, k) ==
    \E r \in {ListItem(Reported(views[v], v \in _internal_use, _extensions), k)} :
        /\ _extensions' = _get_extensions_dict(_extensions, BoundId)
        /\ last' = ViewCall("__getitem__", v, <<k>>, r.raised, r.result)
        /\ trait_changes' = <<>>
        /\ UNCHANGED <<_extension_points, _listeners, alive, binding, apart,
                       caller_lists>>

\* view == other
__eq__(v, other) ==
    /\ _extensions' = _get_extensions_dict(_extensions, BoundId)
    /\ last' = ViewCall("__eq__", v, other, NoError,
                        <<Reported(views[v], v \in _internal_use, _extensions) = other>>)
    /\ trait_changes' = <<>>
    /\ UNCHANGED <<_extension_points, _listeners, alive, binding, apart,
                       caller_lists>>

\* ------------------------------------------- ObservableExtensionRegistry
\*
\* A second registry, an ObservableExtensionRegistry, is given every call the
\* ExtensionRegistry was given, right after it and with the same arguments
\* (read from last, where the call on the ExtensionRegistry is recorded).

\* The names under which the calls on the second registry are recorded.
ObservableOps ==
    {"Observable.add_extension_point_listener", "Observable.add_extension_point",
     "Observable.remove_extension_point_listener",
     "Observable.remove_extension_point", "Observable.set_extensions"}

\* Both registries have been given every call made so far.
Mirrored == last.op \in ObservableOps \cup {"init"}

\* d.get(k, [])
DictGet(d, k) == IF k \in DOMAIN d THEN d[k] ELSE <<>>

\* The DictChangeEvent of self._id_to_contrib[key] = value: the item that was
\* there, if any, and the validated item that is there now.
DictChangeEvent(d, key, value) ==
    [removed |-> IF key \in DOMAIN d THEN DictSet(EmptyDict, key, d[key])
                 ELSE EmptyDict,
     added   |-> DictSet(EmptyDict, key, Copy(value))]

\* _create_observer_handler(listener, extension_point_id): the handler, known
\* by what it closes over.
_create_observer_handler(listener, extension_point_id) ==
    [listener |-> listener, extension_point_id |-> extension_point_id]

\* handler(event) gets past its early return.
HandlerCalls(h, event) ==
    ~(/\ h.extension_point_id \notin DOMAIN event.added
      /\ h.extension_point_id \notin DOMAIN event.removed)

\* The listener invocation handler(event) then makes.
handler(h, event) ==
    [listener |-> h.listener, key |-> h.extension_point_id,
     event |-> ExtensionPointChangedEvent(
                   h.extension_point_id,
                   DictGet(event.added, h.extension_point_id),
                   DictGet(event.removed, h.extension_point_id),
                   NoIndex),
     seen |-> <<>>]

\* The observers of _id_to_contrib are notified, in the order they were added.
NotifyObservers(observers, event) ==
    LET calling == SelectSeq(observers, LAMBDA h : HandlerCalls(h, event))
    IN  [i \in 1..Len(calling) |-> handler(calling[i], event)]

Observable_add_extension_point_listener(listener, extension_point_id) ==
    /\ _observers' = Append(_observers,
                            _create_observer_handler(listener, extension_point_id))
    /\ last' = Call("Observable.add_extension_point_listener", extension_point_id,
                    listener, NoArg, <<>>, NoError, <<>>, <<>>)
    /\ trait_changes' = <<>>
    /\ UNCHANGED <<registry, alive, binding, owner, caller_lists, _id_to_contrib,
                   _internal_use>>

\* pass
Observable_add_extension_point(extension_point) ==
    /\ last' = Call("Observable.add_extension_point", extension_point.id, NoArg,
                    extension_point.obj, <<>>, NoError, <<>>, <<>>)
    /\ trait_changes' = <<>>
    /\ UNCHANGED <<registry, alive, binding, apart, caller_lists>>

\* pass
Observable_remove_extension_point_listener(listener, extension_point_id) ==
    /\ last' = Call("Observable.remove_extension_point_listener",
                    extension_point_id, listener, NoArg, <<>>, NoError, <<>>, <<>>)
    /\ trait_changes' = <<>>
    /\ UNCHANGED <<registry, alive, binding, apart, caller_lists>>

\* pass
Observable_remove_extension_point(extension_point_id) ==
    /\ last' = Call("Observable.remove_extension_point", extension_point_id,
                    NoArg, NoArg, <<>>, NoError, <<>>, <<>>)
    /\ trait_changes' = <<>>
    /\ UNCHANGED <<registry, alive, binding, apart, caller_lists>>

\* self._id_to_contrib[extension_point_id] = extensions, and the observers of
\* the dict run.
Observable_set_extensions(extension_point_id, extensions) ==
    /\ _id_to_contrib' = DictSet(_id_to_contrib, extension_point_id, Copy(extensions))
    /\ last' = Call("Observable.set_extensions", extension_point_id, NoArg, NoArg,
                    extensions, NoError, <<>>,
                    NotifyObservers(_observers,
                        DictChangeEvent(_id_to_contrib, extension_point_id,
                                        extensions)))
    /\ trait_changes' = <<>>
    /\ UNCHANGED <<registry, alive, binding, owner, caller_lists, _observers,
                   _internal_use>>

\* ------------------------------------------------------------ environment

\* Something other than a weak reference holds the listener.
StronglyHeld(l) ==
    \E o \in DOMAIN _obj_to_listeners_map :
        \E t \in DOMAIN _obj_to_listeners_map[o] : _obj_to_listeners_map[o][t] = l

\* The last strong reference to a listener (or to the object whose bound
\* method it is) is dropped and the garbage collector runs.
collect(listener) ==
    /\ listener \in alive
    /\ ~StronglyHeld(listener)
    /\ alive' = alive \ {listener}
    /\ last' = Call("collect", NoArg, listener, NoArg, <<>>, NoError, <<>>, <<>>)
    /\ UNCHANGED <<_extension_points, _extensions, _listeners>>
    /\ trait_changes' = <<>>
    /\ UNCHANGED <<binding, apart, caller_lists>>

\* The listener closure of connect refers to obj (obj is one of its cell
\* variables) and _obj_to_listeners_map, a WeakKeyDictionary whose values are
\* held strongly, refers to the closure: while a closure is saved there, obj
\* is reachable from the ExtensionPoint trait type.
OwnerReachable == \E l \in Closures \cap alive : StronglyHeld(l)

\* The application drops its last reference to obj.
release ==
    /\ owner = "held"
    /\ owner' = "released"
    /\ last' = Call("release", NoArg, NoArg, NoArg, <<>>, NoError, <<>>, <<>>)
    /\ trait_changes' = <<>>
    /\ UNCHANGED <<_extension_points, _extensions, _listeners, alive, binding,
                   observable, caller_lists, _internal_use>>

\* The garbage collector frees obj: nothing reachable refers to it.  Its
\* __dict__ goes with it, the weak key of _obj_to_listeners_map is dropped,
\* and so are the closures that referred to obj.
collect_owner ==
    /\ owner = "released"
    /\ ~OwnerReachable
    /\ owner' = "collected"
    /\ alive' = alive \ Closures
    /\ cache' = Undefined
    /\ _obj_to_listeners_map' =
           IF Obj \in DOMAIN _obj_to_listeners_map
           THEN DictDel(_obj_to_listeners_map, Obj) ELSE _obj_to_listeners_map
    /\ last' = Call("collect_owner", NoArg, NoArg, NoArg, <<>>, NoError, <<>>, <<>>)
    /\ trait_changes' = <<>>
    /\ UNCHANGED <<_extension_points, _extensions, _listeners, views, observable,
                   caller_lists, _internal_use>>

\* ----------------------------------------------------------- specification

\* The state after ExtensionRegistry() and the definition of obj, with the
\* listener callables the program has defined.
InitWith(callables) ==
    /\ _extension_points = <<>>
    /\ _extensions = EmptyDict
    /\ _listeners = [k \in Keys |-> <<>>]
    /\ alive = callables
    /\ last = Call("init", NoArg, NoArg, NoArg, <<>>, NoError, <<>>, <<>>)
    /\ cache = Undefined
    /\ views = <<>>
    /\ _obj_to_listeners_map = EmptyDict
    /\ trait_changes = <<>>
    /\ owner = "held"
    /\ caller_lists = {}
    /\ _id_to_contrib = EmptyDict
    /\ _observers = <<>>
    /\ _internal_use = {}

Init == InitWith(Callbacks)

Next ==
    \/ \E l \in Callbacks, k \in ListenedKeys : add_extension_point_listener(l, k)
    \/ \E ep \in ExtensionPoints : add_extension_point(ep)
    \/ \E id \in Ids : get_extensions(id)
    \/ \E id \in Ids : get_extension_point(id)
    \/ get_extension_points
    \/ \E l \in Callbacks, k \in Keys : remove_extension_point_listener(l, k)
    \/ \E id \in Ids : remove_extension_point(id)
    \/ \E id \in Ids, v \in ExtLists : set_extensions(id, v)
    \/ \E l \in Callbacks : collect(l)

Spec == Init /\ [][Next]_vars

\* One extension point, its listeners and the wildcard listeners: the
\* mutations of the extension point and the life of the listeners.
NextDispatch ==
    \/ \E l \in Callbacks, k \in ListenedKeys : add_extension_point_listener(l, k)
    \/ \E ep \in ExtensionPoints : ep.id = BoundId /\ add_extension_point(ep)
    \/ remove_extension_point(BoundId)
    \/ \E v \in ExtLists : set_extensions(BoundId, v)
    \/ \E l \in Callbacks : collect(l)

SpecDispatch == Init /\ [][NextDispatch]_vars

\* The binding of obj.x and the registry operations on its extension point.
NextBinding ==
    \/ \E ep \in ExtensionPoints : ep.id = BoundId /\ add_extension_point(ep)
    \/ \E v \in ExtLists : set_extensions(BoundId, v)
    \/ remove_extension_point(BoundId)
    \/ get
    \/ connect
    \/ disconnect
    \/ \E l \in Closures : collect(l)

SpecBinding == Init /\ [][NextBinding]_vars

\* The views of obj.x, read and written to by code outside the binding,
\* while the registry changes under them.
NextView ==
    \/ \E ep \in ExtensionPoints : ep.id = BoundId /\ add_extension_point(ep)
    \/ \E v \in ExtLists : set_extensions(BoundId, v)
    \/ remove_extension_point(BoundId)
    \/ get
    \/ connect
    \/ \E v \in 1..Len(views), op \in MutatingOps : attempt(v, op)
    \/ \E v \in 1..Len(views) : __len__(v)
    \/ \E v \in 1..Len(views), k \in 0..MaxLen : __getitem__(v, k)
    \/ \E v \in 1..Len(views), other \in ExtLists : __eq__(v, other)

SpecView == Init /\ [][NextView]_vars

\* The two tables of the registry: every operation that reads or writes the
\* extension points and the contributions, descriptors that replace one
\* another, a listener looking on, and callers that keep the lists they passed.
NextTables ==
    \/ \E ep \in Descriptors : add_extension_point(ep)
    \/ \E id \in Ids : get_extensions(id)
    \/ \E id \in Ids : get_extension_point(id)
    \/ get_extension_points
    \/ \E id \in Ids : remove_extension_point(id)
    \/ \E id \in Ids, v \in ExtLists : set_extensions(id, v)
    \/ \E l \in Readers, k \in ListenedKeys : add_extension_point_listener(l, k)
    \/ \E id \in Ids, v \in ExtLists : mutate_original(id, v)

SpecTables == Init /\ [][NextTables]_vars

\* The binding of obj.x under a registry that also reports partial changes:
\* the contributions are set as a whole before obj.x is first computed, and
\* change in parts afterwards.
NextSplice ==
    \/ \E ep \in ExtensionPoints : ep.id = BoundId /\ add_extension_point(ep)
    \/ \E v \in ExtLists : views = <<>> /\ set_extensions(BoundId, v)
    \/ remove_extension_point(BoundId)
    \/ get
    \/ connect
    \/ \E l \in Closures, event \in IndexedEvents : notify(l, event)

SpecSplice == Init /\ [][NextSplice]_vars

\* The two registries side by side: a call on the ExtensionRegistry, then the
\* same call on the ObservableExtensionRegistry.  The listeners are plain
\* functions, which the second registry holds strongly.
NextObservable ==
    \/ /\ Mirrored
       /\ Len(_observers) < MaxRegs
       /\ \E l \in Callbacks \ Readers, k \in ListenedKeys :
             add_extension_point_listener(l, k)
    \/ Mirrored /\ \E ep \in ExtensionPoints : add_extension_point(ep)
    \/ Mirrored /\ \E l \in Callbacks \ Readers, k \in ListenedKeys :
                       remove_extension_point_listener(l, k)
    \/ Mirrored /\ \E id \in Ids : remove_extension_point(id)
    \/ Mirrored /\ \E id \in Ids, v \in ExtLists : set_extensions(id, v)
    \/ /\ last.op = "add_extension_point_listener"
       /\ Observable_add_extension_point_listener(last.listener, last.id)
    \/ /\ last.op = "add_extension_point"
       /\ Observable_add_extension_point([id |-> last.id, obj |-> last.ep])
    \/ /\ last.op = "remove_extension_point_listener"
       /\ Observable_remove_extension_point_listener(last.listener, last.id)
    \/ /\ last.op = "remove_extension_point"
       /\ Observable_remove_extension_point(last.id)
    \/ /\ last.op = "set_extensions"
       /\ Observable_set_extensions(last.id, last.extensions)

SpecObservable == Init /\ [][NextObservable]_vars

\* The life of obj: the application connects and disconnects its traits
\* while it holds obj, lets go of it, and the garbage collector runs.
NextOwner ==
    \/ \E ep \in ExtensionPoints : ep.id = BoundId /\ add_extension_point(ep)
    \/ \E v \in ExtLists : set_extensions(BoundId, v)
    \/ owner = "held" /\ get
    \/ owner = "held" /\ connect
    \/ owner = "held" /\ disconnect_extension_point_traits
    \/ release
    \/ collect_owner
    \/ \E l \in Closures : collect(l)

SpecOwner == Init /\ [][NextOwner]_vars

\* The listeners of one extension point and the wildcard listeners, added
\* and removed any number of times while the extension point changes.
NextListeners ==
    \/ \E l \in Callbacks, k \in ListenedKeys : add_extension_point_listener(l, k)
    \/ \E l \in Callbacks, k \in ListenedKeys : remove_extension_point_listener(l, k)
    \/ \E ep \in ExtensionPoints : ep.id = BoundId /\ add_extension_point(ep)
    \/ remove_extension_point(BoundId)
    \/ \E v \in ExtLists : set_extensions(BoundId, v)
    \/ \E l \in Callbacks : collect(l)

SpecListeners == Init /\ [][NextListeners]_vars

\* Listeners that add and remove a listener of the extension point from
\* inside the call, next to the listener they add and remove.
InitReentrant == InitWith({Target} \cup Adders \cup Removers)

NextReentrant ==
    \/ \E l \in {Target} \cup Adders \cup Removers, k \in ListenedKeys :
          add_extension_point_listener(l, k)
    \/ \E l \in {Target} \cup Adders \cup Removers, k \in ListenedKeys :
          remove_extension_point_listener(l, k)
    \/ \E ep \in ExtensionPoints : ep.id = BoundId /\ add_extension_point(ep)
    \/ remove_extension_point(BoundId)
    \/ \E v \in ExtLists : set_extensions(BoundId, v)

SpecReentrant == InitReentrant /\ [][NextReentrant]_vars

\* obj.x is connected: the closure saved for it is registered for BoundId.
Connected ==
    \E l \in Closures \cap alive :
        /\ StronglyHeld(l)
        /\ \E i \in 1..Len(_listeners[BoundId]) : _listeners[BoundId][i].cb = l

\* A binding that is connected before the registry is first changed and
\* stays connected, as connect_extension_point_traits leaves it: the
\* extension point is then added, set and removed, and obj.x is read.
NextConnected ==
    \/ connect
    \/ get
    \/ Connected /\ \E ep \in ExtensionPoints : ep.id = BoundId /\ add_extension_point(ep)
    \/ Connected /\ \E v \in ExtLists : set_extensions(BoundId, v)
    \/ Connected /\ remove_extension_point(BoundId)

SpecConnected == Init /\ [][NextConnected]_vars

\* The flags of the views: the registry of obj reports partial changes, some
\* of them through slices the cached view cannot take, and code outside the
\* binding tries every mutating method on the views in between.
NextTrusted ==
    \/ \E ep \in ExtensionPoints : ep.id = BoundId /\ add_extension_point(ep)
    \/ \E v \in ExtLists : views = <<>> /\ set_extensions(BoundId, v)
    \/ remove_extension_point(BoundId)
    \/ get
    \/ connect
    \/ \E l \in Closures, event \in IndexedEvents \cup ExtendedEvents :
          notify(l, event)
    \/ \E v \in 1..Len(views), op \in MutatingOps : attempt(v, op)

SpecTrusted == Init /\ [][NextTrusted]_vars

\* ------------------------------------------------------ notions of the claims

\* The id has a descriptor in the registry.
IsRegistered(id) ==
    \E i \in 1..Len(_extension_points) : _extension_points[i].id = id

\* The contributions the registry holds for the id, none when it holds no entry.
Contributions(id) == IF id \in DOMAIN _extensions THEN _extensions[id] ELSE <<>>

\* The last call was op and returned normally / raised the error.
Returned(op) == last.op = op /\ last.raised = NoError

Raised(op, error) == last.op = op /\ last.raised = error

\* The live references stored under a key, in list order.
LiveRefs(key) == SelectSeq(_listeners[key], LAMBDA ref : ref.cb \in alive)

\* The invocations of a listener through a reference registered under key.
NumCalls(calls, listener, key) ==
    Cardinality({i \in 1..Len(calls) :
                    calls[i].listener = listener /\ calls[i].key = key})

\* The live references to a listener stored under key.
NumLiveRefs(key, listener) ==
    Cardinality({i \in 1..Len(_listeners[key]) :
                    _listeners[key][i].cb = listener /\ listener \in alive})

\* Every live reference stored under the id or as a wildcard was invoked
\* once, and no other reference was.
EachLiveMatchingOnce(calls, id) ==
    \A l \in Callbacks, k \in Keys :
        NumCalls(calls, l, k) = IF k \in {id, None} THEN NumLiveRefs(k, l) ELSE 0

\* The listener is registered under the key.
IsListening(listener, key) ==
    \E i \in 1..Len(_listeners[key]) : _listeners[key][i].cb = listener

\* ------------------------------------------------------------------ claims

\* C1: in the state a successful set_extensions(id, v) leaves, whatever calls
\* came before it, get_extensions(id) returns a list equal to v.
C1_GetAfterSet ==
    Returned("set_extensions")
        => get_extensions_result(_extensions, last.id) = last.extensions

\* A non-empty list has replaced another one, with a listener looking on.
C1_Witness ==
    /\ Returned("set_extensions")
    /\ last.extensions = <<1, 2>>
    /\ last.calls # <<>>
    /\ last.calls[1].event.removed = <<1>>

\* C2: in the state a successful remove_extension_point(id) leaves,
\* get_extensions(id) returns the empty list and get_extension_points() holds
\* no descriptor with that id.
C2_RemovedIsGone ==
    Returned("remove_extension_point")
        => /\ get_extensions_result(_extensions, last.id) = <<>>
           /\ \A i \in 1..Len(_extension_points) :
                 _extension_points[i].id # last.id

\* An extension point that had contributions was removed.
C2_Witness ==
    /\ Returned("remove_extension_point")
    /\ last.calls # <<>>
    /\ last.calls[1].event.removed = <<1, 2>>

\* C3: remove_extension_point(id) on an id that is not registered raises
\* UnknownExtensionPoint, invokes no listener and leaves the extension
\* points, the contributions and the listeners as they were.
C3_RemoveUnknown ==
    [][(last'.op = "remove_extension_point" /\ ~IsRegistered(last'.id))
          => /\ last'.raised = UnknownExtensionPoint
             /\ last'.calls = <<>>
             /\ UNCHANGED <<_extension_points, _extensions, _listeners>>]_vars

\* The removal failed while a live wildcard listener was registered and the
\* other id held contributions.
C3_Witness ==
    /\ Raised("remove_extension_point", UnknownExtensionPoint)
    /\ LiveRefs(None) # <<>>
    /\ \E id \in Ids \ {last.id} : Contributions(id) # <<>>

\* C4: set_extensions(id, v) on an id that is not registered raises
\* UnknownExtensionPoint, stores nothing (get_extensions(id) still returns the
\* empty list) and invokes no listener, wildcard listeners included.
C4_SetUnknown ==
    [][(last'.op = "set_extensions" /\ ~IsRegistered(last'.id))
          => /\ last'.raised = UnknownExtensionPoint
             /\ last'.calls = <<>>
             /\ _extensions' = _extensions
             /\ get_extensions_result(_extensions', last'.id) = <<>>]_vars

\* A non-empty list was refused while a live wildcard listener was registered.
C4_Witness ==
    /\ Raised("set_extensions", UnknownExtensionPoint)
    /\ last.extensions # <<>>
    /\ LiveRefs(None) # <<>>

\* C5: get_extensions(id) never raises; it returns the empty list for an id
\* without contributions, registered or not, and the current value otherwise.
C5_GetNeverRaises ==
    [][last'.op = "get_extensions"
          => /\ last'.raised = NoError
             /\ last'.result = Contributions(last'.id)]_vars

\* An id that is not registered and has no entry was read.
C5_Witness ==
    /\ Returned("get_extensions")
    /\ ~IsRegistered(last.id)
    /\ last.result = <<>>


\* C6: a successful set_extensions(id, new) invokes every live matching
\* listener exactly once, with the event (id, added = new, removed = the value
\* held before the call, index = None), also when new equals the old value.
C6_SetNotifies ==
    [][(last'.op = "set_extensions" /\ last'.raised = NoError)
          => /\ \A i \in 1..Len(last'.calls) :
                   last'.calls[i].event =
                       [extension_point_id |-> last'.id,
                        added |-> last'.extensions,
                        removed |-> Contributions(last'.id),
                        index |-> NoIndex]
             /\ EachLiveMatchingOnce(last'.calls, last'.id)]_vars

\* Two listeners were told of a set_extensions that changed nothing, while a
\* dead reference was passed over.
C6_Witness ==
    /\ Returned("set_extensions")
    /\ Len(last.calls) = 2
    /\ last.calls[1].event.added = <<1>>
    /\ last.calls[1].event.removed = <<1>>
    /\ \E k \in {last.id, None} : Len(LiveRefs(k)) < Len(_listeners[k])

\* C7, as claimed: a successful remove_extension_point(id) notifies the
\* matching listeners with added empty, removed the value held before, and
\* index None.
C7_RemoveNotifiesIndexNone ==
    [][(last'.op = "remove_extension_point" /\ last'.raised = NoError)
          => /\ \A i \in 1..Len(last'.calls) :
                   last'.calls[i].event =
                       [extension_point_id |-> last'.id,
                        added |-> <<>>,
                        removed |-> Contributions(last'.id),
                        index |-> NoIndex]
             /\ EachLiveMatchingOnce(last'.calls, last'.id)]_vars

\* C7, amended: a successful remove_extension_point(id) notifies every live
\* matching listener once, before it returns, with added empty, removed the
\* value held before, and index 0: a positional splice that takes the whole
\* old value away from offset 0, not index None.
C7_RemoveNotifiesIndexZero ==
    [][(last'.op = "remove_extension_point" /\ last'.raised = NoError)
          => /\ \A i \in 1..Len(last'.calls) :
                   last'.calls[i].event =
                       [extension_point_id |-> last'.id,
                        added |-> <<>>,
                        removed |-> Contributions(last'.id),
                        index |-> AtIndex(0)]
             /\ EachLiveMatchingOnce(last'.calls, last'.id)]_vars

\* An extension point with two contributions was removed and a listener of
\* the id and a wildcard listener were told.
C7_Witness ==
    /\ Returned("remove_extension_point")
    /\ Len(last.calls) = 2
    /\ last.calls[1].key = last.id
    /\ last.calls[2].key = None
    /\ last.calls[2].event.removed = <<1, 2>>

\* C8: a wildcard listener is invoked for a successful set_extensions on any
\* registered id; a listener registered for one id is invoked for mutations
\* of that id and never for set_extensions or remove_extension_point on
\* another id.
C8_WildcardAndSpecific ==
    (Returned("set_extensions") \/ Returned("remove_extension_point"))
        => /\ \A i \in 1..Len(last.calls) :
                 last.calls[i].key # None => last.calls[i].key = last.id
           /\ \A l \in Callbacks :
                 /\ NumCalls(last.calls, l, None) = NumLiveRefs(None, l)
                 /\ NumCalls(last.calls, l, last.id) = NumLiveRefs(last.id, l)

\* The extensions of "b" were set while live listeners were registered for
\* "a" and as wildcards: only the wildcards were invoked.
C8_Witness ==
    /\ Returned("set_extensions")
    /\ last.id = "b"
    /\ LiveRefs("a") # <<>>
    /\ LiveRefs(None) # <<>>
    /\ Len(last.calls) = Len(LiveRefs(None))

\* C9: every list of the listener table is kept in registration order (a
\* registration appends to the list of its key, a removal deletes one
\* reference, nothing else touches the table), and a mutation of an id
\* invokes the live listeners of that id in list order, then the live
\* wildcard listeners in list order.
C9_DispatchOrder ==
    [][/\ (last'.raised = NoError
            /\ last'.op \in {"set_extensions", "remove_extension_point"})
          => [i \in 1..Len(last'.calls) |->
                 <<last'.calls[i].listener, last'.calls[i].key>>]
             = LET refs == LiveRefs(last'.id) \o LiveRefs(None)
               IN  [i \in 1..Len(refs) |-> <<refs[i].cb, refs[i].key>>]
       /\ \/ UNCHANGED _listeners
          \/ /\ last'.op = "add_extension_point_listener"
             /\ _listeners' = [_listeners EXCEPT ![last'.id] =
                     Append(@, [cb |-> last'.listener, key |-> last'.id])]
          \/ /\ last'.op = "remove_extension_point_listener"
             /\ \E i \in 1..Len(_listeners[last'.id]) :
                   /\ _listeners[last'.id][i].cb = last'.listener
                   /\ _listeners' = [_listeners EXCEPT ![last'.id] =
                                        RemoveAt(@, i)]]_vars

\* Two different listeners of the id and a wildcard listener were invoked,
\* the wildcard last.
C9_Witness ==
    /\ Returned("set_extensions")
    /\ Len(last.calls) = 3
    /\ last.calls[1].key = last.id
    /\ last.calls[2].key = last.id
    /\ last.calls[1].listener # last.calls[2].listener
    /\ last.calls[3].key = None

\* C10: remove_extension_point_listener(callback, id) raises ValueError when
\* the callback is not registered under exactly that id, and then leaves
\* every registration (and what it fires for) as it was.
C10_RemoveUnknownListener ==
    [][(last'.op = "remove_extension_point_listener"
        /\ ~IsListening(last'.listener, last'.id))
          => /\ last'.raised = ValueError
             /\ UNCHANGED <<_listeners, alive, _extension_points, _extensions>>]_vars

\* The removal failed for a callback registered only as a wildcard, on an id
\* that has another listener.
C10_Witness ==
    /\ Raised("remove_extension_point_listener", ValueError)
    /\ last.id = "a"
    /\ IsListening(last.listener, None)
    /\ _listeners["a"] # <<>>

\* C11: no contributions survive a remove/re-add cycle: when an extension
\* point that was added and given any contributions is removed and then
\* added again, get_extensions of its id returns the empty list.
C11_RemoveReAdd ==
    (last.op = "add_extension_point" /\ last.readd)
        => /\ IsRegistered(last.id)
           /\ get_extensions_result(_extensions, last.id) = <<>>

\* An extension point was added again right after its removal, with a live
\* listener of its id registered.
C11_Witness ==
    /\ last.op = "add_extension_point"
    /\ last.readd
    /\ LiveRefs(last.id) # <<>>

\* C12: a listener that was collected (a bound method whose object is gone,
\* a function the caller dropped) is invoked by no later mutation, and the
\* registry keeps no listener alive: every live listener can be collected,
\* however many registrations the table holds for it.
C12_CollectedStopsFiring ==
    /\ \A i \in 1..Len(last.calls) : last.calls[i].listener \in alive
    /\ \A l \in alive \cap Callbacks : ENABLED collect(l)

\* The extensions of "a" were set when the table held two references and
\* both listeners were gone: nobody was called.
C12_Witness ==
    /\ Returned("set_extensions")
    /\ last.id = "a"
    /\ Len(_listeners["a"]) + Len(_listeners[None]) >= 2
    /\ alive = {}
    /\ last.calls = <<>>

\* C13: a mutation that finds dead references among the matching ones
\* raises nothing because of them, invokes nothing through them, and invokes
\* every live matching reference, before and after them, exactly once.
C13_DeadSkipped ==
    (last.op \in {"set_extensions", "remove_extension_point"}
     /\ last.raised # UnknownExtensionPoint)
        => /\ last.raised = NoError
           /\ LET refs == _listeners[last.id] \o _listeners[None]
              IN  \A p \in 1..Len(refs) :
                     NumCalls(last.calls, refs[p].cb, refs[p].key) =
                        IF refs[p].cb \in alive
                        THEN Cardinality({q \in 1..Len(refs) : refs[q] = refs[p]})
                        ELSE 0

\* The list of "a" holds a live, a dead and a live reference, in this order,
\* and the two live ones were invoked.
C13_Witness ==
    /\ Returned("set_extensions")
    /\ last.id = "a"
    /\ Len(_listeners["a"]) = 3
    /\ _listeners["a"][1].cb \in alive
    /\ _listeners["a"][2].cb \notin alive
    /\ _listeners["a"][3].cb \in alive
    /\ Len(last.calls) = 2

\* C14, as claimed: after a mutation of an id was dispatched, the table holds
\* no reference, for the id or as a wildcard, that was dead before the
\* dispatch (the mutation changes no listener's life, so dead before is dead
\* after).
C14_PrunedOnDispatch ==
    (Returned("set_extensions") \/ Returned("remove_extension_point"))
        => \A k \in {last.id, None} :
              \A i \in 1..Len(_listeners[k]) : _listeners[k][i].cb \in alive

\* C15: the listeners are invoked inside set_extensions(id, v), before it
\* returns, and a listener that reads get_extensions(id) from inside the call
\* gets v; inside a call made by remove_extension_point(id) it gets the empty
\* list from get_extensions(id) and no descriptor of id from
\* get_extension_points().
C15_ReentrantReads ==
    /\ Returned("set_extensions")
          => /\ Len(last.calls) = Len(LiveRefs(last.id)) + Len(LiveRefs(None))
             /\ \A i \in 1..Len(last.calls) :
                   last.calls[i].seen # <<>>
                      => last.calls[i].seen[1].extensions = last.extensions
    /\ Returned("remove_extension_point")
          => /\ Len(last.calls) = Len(LiveRefs(last.id)) + Len(LiveRefs(None))
             /\ \A i \in 1..Len(last.calls) :
                   last.calls[i].seen # <<>>
                      => /\ last.calls[i].seen[1].extensions = <<>>
                         /\ \A j \in 1..Len(last.calls[i].seen[1].extension_points) :
                               last.calls[i].seen[1].extension_points[j].id # last.id

\* A reading listener was told that [1, 2] replaced [1] and read [1, 2] back.
C15_Witness ==
    /\ Returned("set_extensions")
    /\ last.calls # <<>>
    /\ last.calls[1].seen # <<>>
    /\ last.calls[1].event.removed = <<1>>
    /\ last.calls[1].seen[1].extensions = <<1, 2>>

\* ------------------------------------------- notions of the binding's claims

\* A listener of the binding was invoked by the last call.
Delivered == \E i \in 1..Len(last.calls) : last.calls[i].listener \in Closures

\* No live listener of the binding is registered with the registry.
NotSubscribed ==
    \A k \in Keys : \A i \in 1..Len(_listeners[k]) :
        ~(_listeners[k][i].cb \in Closures /\ _listeners[k][i].cb \in alive)

\* C16: a direct mutation attempted on a view outside _internal_sync (append,
\* extend, insert, remove, pop, clear, item assignment, item deletion, +=,
\* *=) raises nothing, leaves what every view reports through len, indexing
\* and equality as it was (and the backing lists too), and leaves the value
\* get_extensions returns for the id as it was.
C16_MutationRejected ==
    [][last'.op \in MutatingOps
          => /\ last'.raised = NoError
             /\ \A v \in 1..Len(views) :
                   Reported(views'[v], FALSE, _extensions')
                      = Reported(views[v], FALSE, _extensions)
             /\ views' = views
             /\ cache' = cache
             /\ get_extensions_result(_extensions', BoundId)
                   = get_extensions_result(_extensions, BoundId)]_vars

\* An item was assigned to a view whose backing list is empty while the
\* registry holds [1, 2]: nothing was raised.
C16_Witness ==
    /\ last.op = "__setitem__"
    /\ last.raised = NoError
    /\ views[last.view] = <<>>
    /\ Contributions(BoundId) = <<1, 2>>

\* C17: when set_extensions was delivered to a listener of the binding (an
\* event with index None), the get() that follows returns a view whose
\* backing list and whose reported contents equal the value just set, not
\* what was cached before.
C17_GetAfterFullReplace ==
    [][(Returned("set_extensions") /\ Delivered /\ last'.op = "get")
          => /\ last'.result = cache
             /\ views'[last'.result[1]] = last.extensions
             /\ Reported(views'[last'.result[1]], FALSE, _extensions')
                   = last.extensions]_vars

\* get returned the second view, built with [1, 2] when a set_extensions
\* replaced the [1] of the first view; the binding is connected.
C17_Witness ==
    /\ last.op = "get"
    /\ last.result = <<2>>
    /\ views = <<(<<1>>), (<<1, 2>>)>>
    /\ Obj \in DOMAIN _obj_to_listeners_map
    /\ Contributions(BoundId) = <<1, 2>>

\* C18, as claimed: once get() has cached a view, connect called or not, a
\* successful set_extensions on the id is delivered to the binding and
\* replaces its cache by a view of the new value.
C18_GetSubscribes ==
    (Returned("set_extensions") /\ cache # Undefined)
        => /\ Delivered
           /\ views[cache[1]] = last.extensions

\* C18, amended: get() caches the view and registers no listener: only
\* connect subscribes the binding.  While no live listener of the binding
\* is registered, a set_extensions on the id is not delivered to it and
\* leaves the cache slot, the cached object and its backing list as they
\* were, and obj is told of no change.
C18_GetDoesNotSubscribe ==
    [][/\ last'.op = "get"
            => UNCHANGED <<_listeners, _obj_to_listeners_map, alive>>
       /\ (last'.op = "set_extensions" /\ NotSubscribed)
            => /\ ~(\E i \in 1..Len(last'.calls) :
                        last'.calls[i].listener \in Closures)
               /\ cache' = cache
               /\ views' = views
               /\ trait_changes' = <<>>]_vars

\* After a get() and with no connect, the extensions were set to [1, 2]:
\* nobody was told and the cached view keeps its empty backing list.
C18_Witness ==
    /\ Returned("set_extensions")
    /\ last.extensions = <<1, 2>>
    /\ last.calls = <<>>
    /\ cache = <<1>>
    /\ views = <<(<<>>)>>
    /\ _obj_to_listeners_map = EmptyDict
    /\ _listeners[BoundId] = <<>>

\* C19: a get() that finds a cached view returns that very object and leaves
\* it in the cache; the cache slot changes only when it was empty or when a
\* set_extensions (an event with index None) is delivered to a listener of
\* the binding, and what takes the slot is then a new object.
C19_SameCachedObject ==
    [][/\ (last'.op = "get" /\ cache # Undefined)
            => (last'.result = cache /\ cache' = cache /\ views' = views)
       /\ cache' # cache
            => /\ \/ cache = Undefined
                  \/ /\ last'.op = "set_extensions"
                     /\ \E i \in 1..Len(last'.calls) :
                           /\ last'.calls[i].listener \in Closures
                           /\ last'.calls[i].event.index = NoIndex
               /\ Len(views') > Len(views)
               /\ cache' = <<Len(views')>>]_vars

\* A get() found the first view cached and returned it, though its backing
\* list is no longer the registry's value.
C19_Witness ==
    /\ last.op = "get"
    /\ trait_changes = <<>>
    /\ last.result = <<1>>
    /\ cache = <<1>>
    /\ views[1] # Contributions(BoundId)

\* C20: len(view), view[k] and view == other, called outside _internal_sync
\* on any view, cached or replaced, connected or not, give what the same
\* operation gives on the list get_extensions returns for the id at that
\* moment, whatever the backing list of the view holds.
C20_ReadsFollowRegistry ==
    /\ last.op = "__len__"
          => /\ last.raised = NoError
             /\ last.result = <<Len(Contributions(BoundId))>>
    /\ last.op = "__getitem__"
          => IF last.extensions[1] < Len(Contributions(BoundId))
             THEN /\ last.raised = NoError
                  /\ last.result = <<Contributions(BoundId)[last.extensions[1] + 1]>>
             ELSE last.raised = IndexError
    /\ last.op = "__eq__"
          => /\ last.raised = NoError
             /\ last.result = <<Contributions(BoundId) = last.extensions>>

\* view[1] was read on a view that is not connected and whose backing list
\* is empty, and gave the second item of the registry's [1, 2].
C20_Witness ==
    /\ last.op = "__getitem__"
    /\ last.extensions = <<1>>
    /\ last.result = <<2>>
    /\ views[last.view] = <<>>
    /\ _obj_to_listeners_map = EmptyDict

\* C21: disconnect_extension_point_traits(obj) never raises, also when the
\* trait of obj was never connected; called again right after itself it
\* changes nothing; and when it has returned, no live listener of obj is left
\* in the listener table.
C21_DisconnectAllIsSafe ==
    [][last'.op = "disconnect"
          => /\ last'.raised = NoError
             /\ \A k \in Keys : \A i \in 1..Len(_listeners'[k]) :
                   _listeners'[k][i].cb \notin Closures \cap alive'
             /\ (last.op = "disconnect" /\ last.raised = NoError)
                   => UNCHANGED <<registry, binding, alive>>]_vars

\* C22: once the application has let go of obj, nothing keeps obj alive: the
\* garbage collector can free it, connected or not.
C22_OwnerCollectable == owner = "released" => ENABLED collect_owner

\* The invocations of listener closures among the invocations of a call.
ClosureCalls(calls) == SelectSeq(calls, LAMBDA c : c.listener \in Closures)

\* Python's list[:to] and list[from:] for from, to >= 0.
UpTo(list, to) == SubSeq(list, 1, IF to > Len(list) THEN Len(list) ELSE to)

From(list, from) == SubSeq(list, from + 1, Len(list))

\* C23: an event with a concrete index delivered to a connected binding that
\* has a cached view splices the backing list of that view in place: for an
\* integer index i it becomes old[:i] + added + old[i + len(removed):], for
\* slice(lo, hi) it becomes old[:lo] + added + old[hi:]; the cache slot keeps
\* the same view, no view is created, and obj gets one x_items notification
\* carrying the event and no notification for x.
C23_SpliceInPlace ==
    [][(/\ last'.op \in {"notify", "remove_extension_point"}
        /\ last'.raised = NoError
        /\ cache # Undefined
        /\ Len(ClosureCalls(last'.calls)) = 1)
          => LET event == ClosureCalls(last'.calls)[1].event
                 old   == views[cache[1]]
                 lo    == event.index[1]
                 hi    == IF IsSlice(event.index) THEN event.index[2]
                          ELSE lo + Len(event.removed)
             IN  /\ event.index # NoIndex
                 /\ cache' = cache
                 /\ Len(views') = Len(views)
                 /\ views'[cache[1]] = UpTo(old, lo) \o event.added \o From(old, hi)
                 /\ trait_changes' = <<[name |-> "x_items", old |-> Undefined,
                                        new |-> event]>>]_vars

\* An item was replaced at index 1 of the cached view <<1, 2>>, and obj was
\* told through x_items alone.
C23_Witness ==
    /\ last.op = "notify"
    /\ last.calls[1].event.index = AtIndex(1)
    /\ last.calls[1].event.removed = <<1>>
    /\ last.calls[1].event.added = <<1>>
    /\ cache # Undefined
    /\ views[cache[1]] = <<1, 1>>
    /\ Len(trait_changes) = 1

\* C24: a successful set_extensions delivered to the listener closures of the
\* binding makes each of them tell obj once that x changed: old is the view
\* cached until then (Undefined when there was none), new is a view created
\* for the occasion, which takes the cache slot and holds the value the
\* registry has at that time, the one just set.
C24_OneValueChange ==
    [][(last'.op = "set_extensions" /\ last'.raised = NoError)
          => LET n == Len(ClosureCalls(last'.calls))
             IN  /\ Len(trait_changes') = n
                 /\ Len(views') = Len(views) + n
                 /\ n > 0 => cache' = <<Len(views')>>
                 /\ \A k \in 1..n :
                       /\ trait_changes'[k] =
                              [name |-> TraitName,
                               old  |-> IF k = 1 THEN cache
                                        ELSE <<Len(views) + k - 1>>,
                               new  |-> <<Len(views) + k>>]
                       /\ views'[Len(views) + k] = last'.extensions]_vars

\* A connected binding with a cached view was told of a new list of two.
C24_Witness ==
    /\ Returned("set_extensions")
    /\ last.extensions = <<1, 2>>
    /\ Len(ClosureCalls(last.calls)) = 1
    /\ Len(trait_changes) = 1
    /\ trait_changes[1].old # Undefined
    /\ trait_changes[1].new = cache

\* C25: add_extension_point(d) for an id that is registered puts d in the
\* place of the descriptor of that id: the table has as many descriptors as
\* before and at most one for every id, get_extension_point(d.id) gives d, the
\* contributions of every id are what they were, and no listener is invoked.
C25_AddReplaces ==
    [][(last'.op = "add_extension_point" /\ IsRegistered(last'.id))
          => /\ Len(_extension_points') = Len(_extension_points)
             /\ \A i, j \in 1..Len(_extension_points') :
                   _extension_points'[i].id = _extension_points'[j].id => i = j
             /\ GetExtensionPoint(_extension_points', last'.id)
                    = <<[id |-> last'.id, obj |-> last'.ep]>>
             /\ _extensions' = _extensions
             /\ last'.calls = <<>>
             /\ trait_changes' = <<>>]_vars

\* The descriptor ep2 was added for an id that holds two contributions (and
\* so had a descriptor), with a live listener of the id and another id
\* registered.
C25_Witness ==
    /\ last.op = "add_extension_point"
    /\ last.ep = "ep2"
    /\ Contributions(last.id) = <<1, 2>>
    /\ LiveRefs(last.id) # <<>>
    /\ Len(_extension_points) = 2

\* C26: the registry stores the list object it is given: when the caller
\* changes that list after a successful set_extensions(id, v), later
\* get_extensions(id) calls return the changed items, and no listener is told.
C26_StoredByReference ==
    [][last'.op = "mutate_original"
          => /\ get_extensions_result(_extensions', last'.id) = last'.extensions
             /\ last'.calls = <<>>
             /\ UNCHANGED <<_extension_points, _listeners>>]_vars

\* The caller emptied the list of two it had stored, under the eyes of a
\* live listener of the id.
C26_Witness ==
    /\ last.op = "mutate_original"
    /\ last.extensions = <<>>
    /\ last.id \in DOMAIN _extensions
    /\ IsRegistered(last.id)
    /\ LiveRefs(last.id) # <<>>

\* C29: an id that holds contributions is a registered extension point; the
\* ids that are not registered have none.
C29_ContributionsAreRegistered ==
    \A id \in Ids : Contributions(id) # <<>> => IsRegistered(id)

\* An extension point was removed and holds nothing, while the other one is
\* registered and holds two contributions.
C29_Witness ==
    /\ Returned("remove_extension_point")
    /\ last.calls # <<>>
    /\ last.calls[1].event.removed # <<>>
    /\ \E id \in Ids \ {last.id} : IsRegistered(id) /\ Contributions(id) = <<1, 2>>

\* C30: get_extensions, get_extension_point and get_extension_points invoke no
\* listener and leave the extension points, the listener table and the list
\* get_extensions returns for every id as they were, also for an id that the
\* registry holds no entry for.
C30_ReadsChangeNothing ==
    [][last'.op \in {"get_extensions", "get_extension_point", "get_extension_points"}
          => /\ last'.calls = <<>>
             /\ trait_changes' = <<>>
             /\ UNCHANGED <<_extension_points, _listeners>>
             /\ \A id \in Ids :
                   get_extensions_result(_extensions', id)
                       = get_extensions_result(_extensions, id)]_vars

\* get_extensions was called for an id that is not registered, with a live
\* wildcard listener and contributions for the other id.
C30_Witness ==
    /\ Returned("get_extensions")
    /\ ~IsRegistered(last.id)
    /\ last.id \in DOMAIN _extensions
    /\ LiveRefs(None) # <<>>
    /\ \E id \in Ids \ {last.id} : Contributions(id) = <<1, 2>>

\* The handlers the second registry holds for a listener and a key.
NumObservers(listener, key) ==
    Cardinality({i \in 1..Len(_observers) :
                    /\ _observers[i].listener = listener
                    /\ _observers[i].extension_point_id = key})

\* C27: on the ObservableExtensionRegistry, set_extensions(id, v) gives every
\* listener registered for id one event per registration, (id, added = v,
\* removed = the value held before, index = None), gives nothing to the
\* listeners registered for another id; and when the ExtensionRegistry
\* accepted the same call, a listener that is registered with it for an id
\* got from it the event the second registry gives.
C27_ObservableSameContent ==
    [][last'.op = "Observable.set_extensions"
          => /\ \A i \in 1..Len(last'.calls) :
                   last'.calls[i].key # None
                       => last'.calls[i].event =
                              [extension_point_id |-> last'.id,
                               added |-> last'.extensions,
                               removed |-> DictGet(_id_to_contrib, last'.id),
                               index |-> NoIndex]
             /\ \A l \in Callbacks, k \in Ids :
                   NumCalls(last'.calls, l, k)
                       = IF k = last'.id THEN NumObservers(l, k) ELSE 0
             /\ last.raised = NoError
                   => \A i \in 1..Len(last'.calls) :
                         (/\ last'.calls[i].key # None
                          /\ IsListening(last'.calls[i].listener, last'.calls[i].key))
                            => \E j \in 1..Len(last.calls) :
                                  /\ last.calls[j].listener = last'.calls[i].listener
                                  /\ last.calls[j].key = last'.calls[i].key
                                  /\ last.calls[j].event = last'.calls[i].event]_vars

\* C28: on the ObservableExtensionRegistry, every set_extensions call, on any
\* id, invokes a listener registered with extension_point_id = None once for
\* each of its registrations.
C28_ObservableWildcard ==
    last.op = "Observable.set_extensions"
        => \A l \in Callbacks : NumCalls(last.calls, l, None) = NumObservers(l, None)

\* The references to a listener a table holds under a key.
NumRegistrations(listeners, key, listener) ==
    Cardinality({i \in 1..Len(listeners[key]) : listeners[key][i].cb = listener})

\* C31: the registrations form a multiset: a mutation of an id invokes a
\* live callback once for every registration it has under that id and once
\* for every registration it has as a wildcard; every
\* add_extension_point_listener(callback, id) adds one registration of that
\* pair and every successful remove_extension_point_listener(callback, id)
\* takes one registration of that pair away, and no other.
C31_RegistrationsAreMultiset ==
    [][/\ (last'.raised = NoError
            /\ last'.op \in {"set_extensions", "remove_extension_point"})
          => \A l \in Callbacks :
                Cardinality({i \in 1..Len(last'.calls) : last'.calls[i].listener = l})
                = IF l \in alive
                  THEN NumRegistrations(_listeners, last'.id, l)
                       + NumRegistrations(_listeners, None, l)
                  ELSE 0
       /\ (last'.raised = NoError
            /\ last'.op \in {"add_extension_point_listener",
                             "remove_extension_point_listener"})
          => \A l \in Callbacks, k \in Keys :
                NumRegistrations(_listeners', k, l)
                = IF l = last'.listener /\ k = last'.id
                  THEN IF last'.op = "add_extension_point_listener"
                       THEN NumRegistrations(_listeners, k, l) + 1
                       ELSE NumRegistrations(_listeners, k, l) - 1
                  ELSE NumRegistrations(_listeners, k, l)]_vars

\* A callback registered twice for the id and once as a wildcard was invoked
\* three times by one set_extensions.
C31_Witness ==
    /\ Returned("set_extensions")
    /\ Len(last.calls) = 3
    /\ \E l \in Callbacks :
          /\ NumCalls(last.calls, l, last.id) = 2
          /\ NumCalls(last.calls, l, None) = 1

\* The invocations of the listeners of a set.
NumInvoked(calls, listeners) ==
    Cardinality({i \in 1..Len(calls) : calls[i].listener \in listeners})

\* C32: a dispatch goes through the listeners that were registered when the
\* mutation was made: a mutation that returns has invoked exactly the live
\* listeners of the table as it was before the first of them ran, in order,
\* whatever they added to the table or removed from it meanwhile; what they
\* added and removed is in the table afterwards, for the next event.
C32_DispatchOverSnapshot ==
    [][(last'.raised = NoError
        /\ last'.op \in {"set_extensions", "remove_extension_point"})
          => /\ [i \in 1..Len(last'.calls) |->
                    <<last'.calls[i].listener, last'.calls[i].key>>]
                = LET refs == LiveRefs(last'.id) \o LiveRefs(None)
                  IN  [i \in 1..Len(refs) |-> <<refs[i].cb, refs[i].key>>]
             /\ \A l \in alive, k \in Keys :
                   NumRegistrations(_listeners', k, l)
                   = IF l = Target /\ k = last'.id
                     THEN NumRegistrations(_listeners, k, l)
                          + NumInvoked(last'.calls, Adders)
                          - NumInvoked(last'.calls, Removers)
                     ELSE NumRegistrations(_listeners, k, l)]_vars

\* One set_extensions invoked a listener that removed g, then a listener
\* that added g again, then g itself, once.
C32_Witness ==
    /\ Returned("set_extensions")
    /\ Len(last.calls) = 3
    /\ last.calls[1].listener \in Removers
    /\ last.calls[2].listener \in Adders
    /\ last.calls[3].listener = Target
    /\ NumRegistrations(_listeners, last.id, Target) = 1

\* The live listeners a mutation of the id finds registered, in dispatch order.
Registered(id) ==
    LET refs == LiveRefs(id) \o LiveRefs(None)
    IN  [i \in 1..Len(refs) |-> <<refs[i].cb, refs[i].key>>]

\* C33: when a listener raises during the dispatch of a set_extensions or a
\* remove_extension_point, the call raises what the listener raised, the
\* listeners after it in dispatch order are not invoked, and the change
\* stays: the new value is the one get_extensions returns, or the extension
\* point stays removed.  (The listener that raises is r, whose
\* remove_extension_point_listener finds nothing to remove.)
C33_ListenerRaises ==
    [][(last'.op \in {"set_extensions", "remove_extension_point"}
        /\ IsRegistered(last'.id))
          => /\ last'.raised \in {NoError, ValueError}
             /\ (/\ Registered(last'.id) # <<>>
                 /\ Registered(last'.id)[1][1] \in Removers
                 /\ NumRegistrations(_listeners, last'.id, Target) = 0)
                   => last'.raised = ValueError
             /\ last'.raised = ValueError
                   => /\ last'.calls # <<>>
                      /\ last'.calls[Len(last'.calls)].listener \in Removers
                      /\ Len(last'.calls) <= Len(Registered(last'.id))
                      /\ [i \in 1..Len(last'.calls) |->
                             <<last'.calls[i].listener, last'.calls[i].key>>]
                         = SubSeq(Registered(last'.id), 1, Len(last'.calls))
                      /\ IF last'.op = "set_extensions"
                         THEN get_extensions_result(_extensions', last'.id)
                              = last'.extensions
                         ELSE /\ get_extensions_result(_extensions', last'.id) = <<>>
                              /\ \A i \in 1..Len(_extension_points') :
                                    _extension_points'[i].id # last'.id]_vars

\* A set_extensions of a list of two items raised the ValueError of
\* its first listener; the live listener registered after that one was not
\* invoked.
C33_Witness ==
    /\ Raised("set_extensions", ValueError)
    /\ Len(last.calls) = 1
    /\ Len(Registered(last.id)) = 2
    /\ NumCalls(last.calls, Target, None) = 0
    /\ NumLiveRefs(None, Target) = 1
    /\ last.extensions = <<1, 2>>
    /\ Contributions(last.id) = <<1, 2>>

\* C34: while obj.x is connected from before the first change of the
\* registry, and its extension point changes through set_extensions and
\* remove_extension_point only, the backing list of the cached view is equal
\* to what get_extensions returns for the id, after every operation.
C34_ViewFollowsRegistry ==
    cache # Undefined
        => views[cache[1]] = get_extensions_result(_extensions, BoundId)

\* remove_extension_point took the two contributions out of the cached view,
\* in place.
C34_Witness ==
    /\ Returned("remove_extension_point")
    /\ ClosureCalls(last.calls) # <<>>
    /\ last.calls[1].event.removed = <<1, 2>>
    /\ Len(trait_changes) = 1
    /\ trait_changes[1].name = "x_items"
    /\ cache # Undefined
    /\ views[cache[1]] = <<>>

\* C35: the flag of a view is set only inside a splice made by a listener of
\* the binding: after every operation, a splice that raised included, the
\* flag of every view is False, and a mutating method called on a view by
\* other code leaves the backing list as it was.
C35_FlagOnlyInsideSplice ==
    [][/\ _internal_use' = {}
       /\ last'.op \in MutatingOps => views' = views]_vars

\* The assignment of two items to an extended slice of one item raised and
\* left the cached view as it was, with its flag cleared.
C35_Witness ==
    /\ Raised("notify", ValueError)
    /\ last.calls[1].event.added = <<1, 2>>
    /\ cache # Undefined
    /\ views[cache[1]] = <<1>>
    /\ cache[1] \notin _internal_use
    /\ trait_changes = <<>>

====
